---------------------------- MODULE Spec2Model ----------------------------
(***************************************************************************)
(* A model of the label helpers of ic3_labels.labels.utils:                *)
(*                                                                         *)
(*   tau.py      get_tau_energy_deposited                                  *)
(*   general.py  particle_is_inside, get_ids_of_particle_and_daughters,    *)
(*               get_pulse_map, get_noise_pulse_map                        *)
(*                                                                         *)
(* Every function is synchronous and works on the arguments of one call,   *)
(* so each has a specification of its own (SpecTau, SpecInside, SpecIds,   *)
(* SpecPulse): Init draws the arguments of one call from bounded sets and  *)
(* the actions run the call.  The variables of the other functions stay at *)
(* their idle values.                                                      *)
(*                                                                         *)
(* Numbers.  Python floats are modelled on integer grids.  Distances of    *)
(* get_tau_energy_deposited are counted in units of 1e-6 (the offset of    *)
(* tau.py:68), distances of particle_is_inside in units of 1e-8 (the       *)
(* tolerance of general.py:69), times in the unit of the stored            *)
(* timestamps.  NaN inputs are not modelled.                               *)
(***************************************************************************)
EXTENDS Integers, Sequences, FiniteSets, TLC

VARIABLES
    \* get_tau_energy_deposited
    tauPc,        \* "call" | "done" | "idle"
    tauArgs,      \* the arguments of the call
    tauRet,       \* the value returned (or the exception raised)
    tauDepEn,     \* the local dep_en when the function ends
    tauLoss,      \* the energy differences the call computed
    tauAsked,     \* the distances the energy-at-distance model was asked for
    \* particle_is_inside
    piPc, piArgs, piRet,
    \* get_ids_of_particle_and_daughters
    idsPc, idsArgs, idsRet,
    \* get_pulse_map / get_noise_pulse_map
    pmPc,         \* "call" | "channels" | "scan" | "done" | "idle"
    frame,        \* the arguments of the call: frame content, particle, max_time_dif
    pmIds,        \* the id set built at general.py:147 (signal mode)
    pmCollected,  \* whether get_ids_of_particle_and_daughters has been called
    pmShared,     \* the shared keys the for loop has not visited yet
    pmKey,        \* the key of the current iteration (0: none)
    mcPulseTimes, \* mc_pulse_times of the current key
    lastIndex,    \* last_index (0-based, as in the code)
    pulseIdx,     \* number of pulses of the current key already processed
    accepted,     \* particle_in_ice_pulses / noise_in_ice_pulses of the current key
    acceptedAt,   \* history: the positions (1-based) of the accepted pulses
    pmMap,        \* particle_pulse_series_map / noise_pulse_series_map
    pmRet         \* how the call ended

tauVars == <<tauPc, tauArgs, tauRet, tauDepEn, tauLoss, tauAsked>>
piVars  == <<piPc, piArgs, piRet>>
idsVars == <<idsPc, idsArgs, idsRet>>
pmVars  == <<pmPc, frame, pmIds, pmCollected, pmShared, pmKey, mcPulseTimes,
             lastIndex, pulseIdx, accepted, acceptedAt, pmMap, pmRet>>
vars    == <<tauVars, piVars, idsVars, pmVars>>

-----------------------------------------------------------------------------
(* Shared helpers                                                          *)

SeqsUpTo(S, n) == UNION {[1..k -> S] : k \in 0..n}

Range(s) == {s[i] : i \in DOMAIN s}

\* Python's min() and max() of a non-empty sequence of numbers
SeqMin(s) == CHOOSE x \in Range(s) : \A y \in Range(s) : x <= y
SeqMax(s) == CHOOSE x \in Range(s) : \A y \in Range(s) : x >= y

Abs(x) == IF x < 0 THEN -x ELSE x

\* A Python value returned or raised by a call
Val(k, v) == [kind |-> k, val |-> v]
Float(v)  == Val("float", v)
NaN       == Val("nan", 0)
PyNone    == Val("None", 0)
PyTrue    == Val("True", 0)
PyFalse   == Val("False", 0)
Unbound   == Val("unbound", 0)
Raised(e) == Val(e, 0)

-----------------------------------------------------------------------------
(* get_tau_energy_deposited (tau.py)                                       *)

MaxT      == 3   \* intersection parameters range over -MaxT..MaxT
MaxLen    == 3   \* tau.length ranges over 0..MaxLen
MaxEnergy == 2   \* particle energies range over 0..MaxEnergy
MaxRate   == 1   \* loss per unit distance of the energy model: -1..MaxRate

\* The 1e-6 of tau.py:68 and tau.py:89, in units of 1e-6
DecayEps == 1

\* The external energy-loss model get_muon_energy_at_distance(frame, tau, d),
\* which is not part of the sources at hand.  The model of a call is fixed by
\* a loss rate: the particle has its full energy up to its start, and from
\* there the residual energy falls linearly with the distance, never below 0.
\* It equals tau.energy at distance 0, is non-increasing in the distance
\* exactly when rate >= 0, and is the no-loss model for rate = 0.
EnergyAtDistance(tau, rate, d) ==
    LET e == tau.energy - rate * d
    IN  IF d <= 0 THEN tau.energy ELSE IF e < 0 THEN 0 ELSE e

\* tau.py:41
AnyMissing(a) == ~a.tau.present \/ ~a.first.present \/ ~a.second.present

\* A slip of tau.py:60: only the entry point is compared with 0
IsStartingAnyExit(min_ts, max_ts) == min_ts <= 0

\* tau.py:60
IsStarting(min_ts, max_ts) == min_ts <= 0 /\ max_ts >= 0

\* tau.py:77
IsBehind(max_ts) == max_ts < 0

\* tau.py:81
IsIncoming(min_ts, max_ts) == min_ts > 0 /\ max_ts > 0

\* tau.py:66 and tau.py:87
DecaysInside(max_ts, tau) == max_ts >= tau.length

\* What one call leaves behind
TauEnd(ret, depEn, loss, asked) ==
    [ret |-> ret, depEn |-> depEn, loss |-> loss, asked |-> asked]

\* tau.py:60-75: the starting-track block, which assigns dep_en
StartingBlock(a, min_ts, max_ts) ==
    IF IsStarting(min_ts, max_ts)
    THEN IF DecaysInside(max_ts, a.tau)
         THEN LET d    == a.tau.length - DecayEps
                  lost == a.tau.energy - EnergyAtDistance(a.tau, a.rate, d)
              IN  TauEnd(PyNone,
                         Float(a.first.energy + lost + a.second.energy),
                         {lost}, {d})
         ELSE LET lost == a.tau.energy
                          - EnergyAtDistance(a.tau, a.rate, max_ts)
              IN  TauEnd(PyNone, Float(a.first.energy + lost),
                         {lost}, {max_ts})
    ELSE TauEnd(PyNone, Unbound, {}, {})

\* tau.py:81-94: the incoming-track block.  Only its else branch returns.
IncomingBlock(a, min_ts, max_ts, s) ==
    IF DecaysInside(max_ts, a.tau)
    THEN LET d    == a.tau.length - DecayEps
             lost == EnergyAtDistance(a.tau, a.rate, min_ts)
                     - EnergyAtDistance(a.tau, a.rate, d)
         IN  TauEnd(PyNone, Float(lost + a.second.energy),
                    s.loss \cup {lost}, s.asked \cup {min_ts, d})
    ELSE LET lost == EnergyAtDistance(a.tau, a.rate, min_ts)
                     - EnergyAtDistance(a.tau, a.rate, max_ts)
         IN  TauEnd(Float(lost), s.depEn,
                    s.loss \cup {lost}, s.asked \cup {min_ts, max_ts})

\* tau.py:14-94.  A function body that ends without a return statement
\* returns None.
GetTauEnergyDeposited(a) ==
    IF AnyMissing(a) THEN TauEnd(NaN, Unbound, {}, {})
    ELSE IF Len(a.ts) = 0 THEN TauEnd(Float(0), Unbound, {}, {})
    ELSE IF Len(a.ts) # 2
         THEN TauEnd(Raised("AssertionError"), Unbound, {}, {})
    ELSE LET min_ts == SeqMin(a.ts)
             max_ts == SeqMax(a.ts)
             s      == StartingBlock(a, min_ts, max_ts)
         IN  IF IsBehind(max_ts)
             THEN TauEnd(Float(0), s.depEn, s.loss, s.asked)
             ELSE IF IsIncoming(min_ts, max_ts)
                  THEN IncomingBlock(a, min_ts, max_ts, s)
                  ELSE s

Absent == [present |-> FALSE, energy |-> 0, length |-> 0]

TauParticles ==
    {Absent} \cup [present : {TRUE}, energy : 0..MaxEnergy, length : 0..MaxLen]

Cascades ==
    {Absent} \cup [present : {TRUE}, energy : 0..MaxEnergy, length : {0}]

\* The arguments of one call.  ts is what geometry.get_intersections
\* returns for the tau's line; rate fixes the energy model of the frame.
TauArgSet ==
    [tau : TauParticles, first : Cascades, second : Cascades,
     ts : SeqsUpTo(-MaxT..MaxT, 2), rate : -1..MaxRate]

InitTauIdle ==
    /\ tauPc = "idle" /\ tauArgs = <<>> /\ tauRet = Unbound
    /\ tauDepEn = Unbound /\ tauLoss = {} /\ tauAsked = {}

InitTau ==
    /\ tauPc = "call"
    /\ tauArgs \in TauArgSet
    /\ tauRet = Unbound /\ tauDepEn = Unbound
    /\ tauLoss = {} /\ tauAsked = {}

CallGetTauEnergyDeposited ==
    /\ tauPc = "call"
    /\ LET r == GetTauEnergyDeposited(tauArgs)
       IN  /\ tauRet' = r.ret
           /\ tauDepEn' = r.depEn
           /\ tauLoss' = r.loss
           /\ tauAsked' = r.asked
    /\ tauPc' = "done"
    /\ UNCHANGED <<tauArgs, piVars, idsVars, pmVars>>

-----------------------------------------------------------------------------
(* particle_is_inside (general.py)                                         *)

\* The 1e-8 of general.py:69, in units of 1e-8
LenTol == 1

\* general.py:63
StartsInside(min_ts, max_ts) == min_ts <= 0 /\ max_ts >= 0

\* general.py:69
StopsBefore(min_ts, particle) == min_ts > particle.length + LenTol

\* A slip of general.py:61: the first parameter is taken for the smaller one
MinTsFirst(ts) == ts[1]

\* general.py:61
MinTs(ts) == SeqMin(ts)

\* general.py:28-73
ParticleIsInside(particle, ts) ==
    IF Len(ts) = 0 THEN PyNone
    ELSE IF Len(ts) # 2 THEN Raised("AssertionError")
    ELSE LET min_ts == MinTs(ts)
             max_ts == SeqMax(ts)
         IN  IF StartsInside(min_ts, max_ts) THEN PyTrue
             ELSE IF max_ts < 0 THEN PyFalse
             ELSE IF StopsBefore(min_ts, particle) THEN PyFalse
             ELSE PyTrue

\* The intersection parameters reach past the longest track and its tolerance
PiArgSet ==
    [particle : [length : 0..MaxLen],
     ts : SeqsUpTo(-MaxT..(MaxLen + LenTol + 1), 2)]

InitPiIdle == piPc = "idle" /\ piArgs = <<>> /\ piRet = Unbound

InitPi == piPc = "call" /\ piArgs \in PiArgSet /\ piRet = Unbound

CallParticleIsInside ==
    /\ piPc = "call"
    /\ piRet' = ParticleIsInside(piArgs.particle, piArgs.ts)
    /\ piPc' = "done"
    /\ UNCHANGED <<piArgs, tauVars, idsVars, pmVars>>

-----------------------------------------------------------------------------
(* get_ids_of_particle_and_daughters (general.py)                          *)

MaxNodes == 3   \* particles of the I3MCTree: 1..MaxNodes

\* I3ParticleID: (0, 0) and the ids that differ from it in one or both parts
IdSet == [majorID : {0, 1}, minorID : {0, 1}]

\* particle is None
NoParticle == 0

\* The orderings of a finite set
Perms(S) ==
    {s \in [1..Cardinality(S) -> S] : \A i, j \in DOMAIN s : i # j => s[i] # s[j]}

\* The daughter lists of the forests over 1..n whose edges are given by the
\* parent of each particle (0: a primary), in every order of the daughters
DaughterLists(n, par) ==
    LET kids(p) == {m \in 1..n : par[m] = p}
        lists   == UNION {Perms(kids(p)) : p \in 1..n}
    IN  {d \in [1..n -> lists] : \A p \in 1..n : d[p] \in Perms(kids(p))}

\* The daughter lists of every forest over 1..n.  A particle's parent has a
\* smaller number, so the forest is acyclic.
Forests(n) ==
    LET pars == {par \in [1..n -> 0..n] : \A m \in 1..n : par[m] < m}
    IN  UNION {DaughterLists(n, par) : par \in pars}

\* I3MCTree: dau[p] is what get_daughters(p) returns, id[p] is p.id
Trees(n) == [dau : Forests(n), id : [1..n -> IdSet]]

\* general.py:98
GetDaughters(tree, particle) == tree.dau[particle]

RECURSIVE GetIdsOfParticleAndDaughters(_, _, _)
RECURSIVE ForDaughters(_, _, _)

\* A slip of general.py:99-101: the return statement inside the loop, so
\* that the loop ends after the first daughter
ForDaughtersReturnEarly(tree, daughters, ids) ==
    IF daughters = <<>> THEN ids
    ELSE GetIdsOfParticleAndDaughters(tree, Head(daughters), ids)

\* general.py:99-100: the loop over the daughters, each a recursive call
\* that appends to the one shared list
ForDaughters(tree, daughters, ids) ==
    IF daughters = <<>> THEN ids
    ELSE ForDaughters(tree, Tail(daughters),
                      GetIdsOfParticleAndDaughters(tree, Head(daughters), ids))

\* general.py:76-101
GetIdsOfParticleAndDaughters(tree, particle, ids) ==
    IF particle = NoParticle THEN ids
    ELSE ForDaughters(tree, GetDaughters(tree, particle),
                      Append(ids, tree.id[particle]))

IdsArgSet ==
    [tree : Trees(MaxNodes), particle : 0..MaxNodes, ids : SeqsUpTo(IdSet, 1)]

InitIdsIdle == idsPc = "idle" /\ idsArgs = <<>> /\ idsRet = <<>>

InitIds == idsPc = "call" /\ idsArgs \in IdsArgSet /\ idsRet = <<>>

CallGetIds ==
    /\ idsPc = "call"
    /\ idsRet' = GetIdsOfParticleAndDaughters(idsArgs.tree, idsArgs.particle,
                                               idsArgs.ids)
    /\ idsPc' = "done"
    /\ UNCHANGED <<idsArgs, tauVars, piVars, pmVars>>

-----------------------------------------------------------------------------
(* get_pulse_map and get_noise_pulse_map (general.py)                      *)

MaxPulses    == 3  \* pulses of a channel, in the frames of one channel
MaxPE        == 2  \* photoelectrons of a channel, in the frames of one channel
PulseNodes   == 2  \* particles of the tree, in the frames of every tree
WideChannels == 2  \* sensor channels (OMKeys), in the frames of several channels

\* Pulse and photoelectron times, and the values of max_time_dif: with 1 a
\* pulse matches a photoelectron of its own time only, with 2 also the
\* neighbouring times
Times      == 0..2
Tolerances == {1, 2}

\* The default of max_time_dif, general.py:107
DefaultMaxTimeDif == 100

\* An I3ParticleID as the tuple of general.py:147
IdTuple(i) == <<i.majorID, i.minorID>>

\* dataclasses.I3ParticleID(), general.py:215: both ids 0
EmptyId == [majorID |-> 0, minorID |-> 0]

\* A slip of general.py:136: the id compared with the tuple (0, 0), which no
\* I3ParticleID equals
RejectsSentinelAsTuple(particle_id) == FALSE

\* general.py:136
RejectsSentinel(particle_id) ==
    particle_id.majorID = 0 /\ particle_id.minorID = 0

\* A slip of general.py:149: the tuple (0, 0) looked up among the
\* I3ParticleID objects, before general.py:147 made tuples of them
HasSentinelAmongObjects(ids) == FALSE

\* general.py:149, the condition whose failure raises AssertionError
HasSentinel(ids) == <<0, 0>> \in ids

\* general.py:176
Within(pulse_time, t, max_time_dif) == Abs(pulse_time - t) < max_time_dif

\* A slip of general.py:177: the index within the slice taken for the index
\* within the list
AdvanceInSlice(last_index, i) == i

\* A slip of general.py:177: the search resumes after the matched
\* photoelectron instead of at it
AdvancePast(last_index, i) == last_index + i + 1

\* general.py:177
Advance(last_index, i) == last_index + i

\* No index: the inner loop ended without a break
NoMatch == -1

RECURSIVE Enumerate(_, _, _, _)

\* general.py:175-179: for i, t in enumerate(times): the first i (0-based)
\* whose t is within the window of the pulse, scanning from i
Enumerate(times, i, pulse_time, max_time_dif) ==
    IF i >= Len(times) THEN NoMatch
    ELSE IF Within(pulse_time, times[i + 1], max_time_dif) THEN i
    ELSE Enumerate(times, i + 1, pulse_time, max_time_dif)

\* mc_pulse_times[last_index:]
Slice(times, last_index) == SubSeq(times, last_index + 1, Len(times))

\* general.py:164-165: the times of the photoelectrons of the particle or
\* its daughters, in the order of the series
SignalTimes(series, ids) ==
    LET keep(p) == IdTuple(p.ID) \in ids
        picked  == SelectSeq(series, keep)
    IN  [k \in DOMAIN picked |-> picked[k].time]

\* general.py:229-230: the times of the photoelectrons without a particle
NoiseTimes(series) ==
    LET keep(p) == p.ID = EmptyId
        picked  == SelectSeq(series, keep)
    IN  [k \in DOMAIN picked |-> picked[k].time]

CandidateTimes(f, key, ids) ==
    IF f.mode = "signal" THEN SignalTimes(f.mcpe[key], ids)
    ELSE NoiseTimes(f.mcpe[key])

\* A map of the frame: a function from the keys it holds
MapsOver(channels, V) == UNION {[K -> V] : K \in SUBSET channels}

NoMap == <<>>

\* The frames of a call.  hasPulses: pulse_map_string is in the frame, and
\* pulses is that map (with its mask applied, general.py:154-155).
\* hasMcpe: mcpe_series_map_name is in the frame, and mcpe is that map.
\* particle is the particle of get_pulse_map, a particle of the tree.
FramesOf(modes, trees, channels, times, ids, tols, nPulses, nPE) ==
    LET pe      == [time : times, ID : ids]
        pulses  == MapsOver(channels, SeqsUpTo(times, nPulses))
        mcpe    == MapsOver(channels, SeqsUpTo(pe, nPE))
        with(hasP, P, hasM, M) ==
            [mode : modes, tree : trees, particle : {1},
             hasPulses : {hasP}, pulses : P, hasMcpe : {hasM}, mcpe : M,
             max_time_dif : tols]
    IN  with(TRUE, pulses, TRUE, mcpe)
        \cup with(FALSE, {NoMap}, TRUE, mcpe)
        \cup with(TRUE, pulses, FALSE, {NoMap})

RealId     == [majorID |-> 1, minorID |-> 1]
DaughterId == [majorID |-> 0, minorID |-> 1]

\* A tree of one particle with a real id
LoneTree == [dau |-> <<<<>>>>, id |-> <<RealId>>]

\* A particle and its daughter, with real ids
PairTree == [dau |-> <<<<2>>, <<>>>>, id |-> <<RealId, DaughterId>>]

\* One channel with up to MaxPulses pulses and MaxPE photoelectrons, each of
\* the particle, of its daughter or of noise
DeepFrames ==
    FramesOf({"signal", "noise"}, {PairTree}, {1}, Times,
             {RealId, DaughterId, EmptyId}, Tolerances, MaxPulses, MaxPE)

\* Every tree of PulseNodes particles with every id, and one channel with at
\* most one pulse and one photoelectron of any id
TreeFrames ==
    FramesOf({"signal"}, Trees(PulseNodes), {1}, Times, IdSet, Tolerances,
             1, 1)

\* Several channels, each with at most one pulse and two photoelectrons, all
\* of them candidates
WideFrames ==
    FramesOf({"signal"}, {LoneTree}, 1..WideChannels, {0, 1}, {RealId},
             Tolerances, 1, 2)
    \cup
    FramesOf({"noise"}, {LoneTree}, 1..WideChannels, {0, 1}, {EmptyId},
             Tolerances, 1, 2)

\* The documented scenario: pulses at 100, 250 and 400, candidate
\* photoelectrons at 105 and 402, the default max_time_dif
ExampleFrames ==
    [mode : {"signal", "noise"}, tree : {LoneTree}, particle : {1},
     hasPulses : {TRUE}, pulses : {<<<<100, 250, 400>>>>},
     hasMcpe : {TRUE},
     mcpe : {<<<<[time |-> 105, ID |-> i], [time |-> 402, ID |-> i]>>>>
               : i \in {RealId, EmptyId}},
     max_time_dif : {DefaultMaxTimeDif}]

AllFrames == DeepFrames \cup TreeFrames \cup WideFrames \cup ExampleFrames

InitPmIdle ==
    /\ pmPc = "idle" /\ frame = <<>> /\ pmIds = {} /\ pmCollected = FALSE
    /\ pmShared = {} /\ pmKey = 0 /\ mcPulseTimes = <<>> /\ lastIndex = 0
    /\ pulseIdx = 0 /\ accepted = <<>> /\ acceptedAt = <<>>
    /\ pmMap = NoMap /\ pmRet = Unbound

InitPmWith(frames) ==
    /\ pmPc = "call" /\ frame \in frames /\ pmIds = {} /\ pmCollected = FALSE
    /\ pmShared = {} /\ pmKey = 0 /\ mcPulseTimes = <<>> /\ lastIndex = 0
    /\ pulseIdx = 0 /\ accepted = <<>> /\ acceptedAt = <<>>
    /\ pmMap = NoMap /\ pmRet = Unbound

scanVars == <<pmKey, mcPulseTimes, lastIndex, pulseIdx, accepted, acceptedAt>>

\* The call ends: it raises, or returns the map built so far
PmEnd(how) ==
    /\ pmRet' = how
    /\ pmPc' = "done"

\* general.py:153-162 and general.py:218-227: read the two maps and build
\* shared_keys
PmSharedKeys ==
    IF ~frame.hasMcpe
    THEN PmEnd(Raised("KeyError")) /\ UNCHANGED pmShared
    ELSE /\ pmShared' = {key \in DOMAIN frame.pulses : key \in DOMAIN frame.mcpe}
         /\ pmPc' = "channels"
         /\ UNCHANGED pmRet

\* general.py:136-162: get_pulse_map up to its loop over the shared keys
GetPulseMapEnter ==
    /\ pmPc = "call"
    /\ frame.mode = "signal"
    /\ IF RejectsSentinel(frame.tree.id[frame.particle])
       THEN /\ PmEnd(Raised("ValueError"))
            /\ UNCHANGED <<pmIds, pmCollected, pmShared>>
       ELSE IF ~frame.hasPulses
       THEN /\ PmEnd(Val("returned", 0))
            /\ UNCHANGED <<pmIds, pmCollected, pmShared>>
       ELSE LET ids == GetIdsOfParticleAndDaughters(frame.tree,
                                                    frame.particle, <<>>)
                tuples == {IdTuple(i) : i \in Range(ids)}
            IN  /\ pmCollected' = TRUE
                /\ pmIds' = tuples
                /\ IF HasSentinel(tuples)
                   THEN PmEnd(Raised("AssertionError")) /\ UNCHANGED pmShared
                   ELSE PmSharedKeys
    /\ UNCHANGED <<frame, pmMap, scanVars, tauVars, piVars, idsVars>>

\* general.py:212-227: get_noise_pulse_map up to its loop over the shared keys
GetNoisePulseMapEnter ==
    /\ pmPc = "call"
    /\ frame.mode = "noise"
    /\ IF ~frame.hasPulses
       THEN PmEnd(Val("returned", 0)) /\ UNCHANGED pmShared
       ELSE PmSharedKeys
    /\ UNCHANGED <<frame, pmIds, pmCollected, pmMap, scanVars,
                   tauVars, piVars, idsVars>>

\* general.py:163-171 and general.py:228-236: the next key of the loop (a
\* set is iterated in no particular order) and its candidate times.  With no
\* candidate the body stores nothing and the loop goes on.
ChannelStart ==
    /\ pmPc = "channels"
    /\ \E key \in pmShared :
         LET times == CandidateTimes(frame, key, pmIds)
         IN  /\ pmShared' = pmShared \ {key}
             /\ pmKey' = key
             /\ mcPulseTimes' = times
             /\ accepted' = <<>>
             /\ acceptedAt' = <<>>
             /\ lastIndex' = 0
             /\ pulseIdx' = 0
             /\ pmPc' = IF times = <<>> THEN "channels" ELSE "scan"
    /\ UNCHANGED <<frame, pmIds, pmCollected, pmMap, pmRet,
                   tauVars, piVars, idsVars>>

\* general.py:172-179 and general.py:237-244: one pulse of the key
ScanPulse ==
    /\ pmPc = "scan"
    /\ pulseIdx < Len(frame.pulses[pmKey])
    /\ LET pulse == frame.pulses[pmKey][pulseIdx + 1]
           i     == Enumerate(Slice(mcPulseTimes, lastIndex), 0, pulse,
                              frame.max_time_dif)
       IN  IF i = NoMatch
           THEN UNCHANGED <<lastIndex, accepted, acceptedAt>>
           ELSE /\ lastIndex' = Advance(lastIndex, i)
                /\ accepted' = Append(accepted, pulse)
                /\ acceptedAt' = Append(acceptedAt, pulseIdx + 1)
    /\ pulseIdx' = pulseIdx + 1
    /\ UNCHANGED <<pmPc, frame, pmIds, pmCollected, pmShared, pmKey,
                   mcPulseTimes, pmMap, pmRet, tauVars, piVars, idsVars>>

\* general.py:180-181 and general.py:245-246: the pulses of the key are done
ChannelEnd ==
    /\ pmPc = "scan"
    /\ pulseIdx = Len(frame.pulses[pmKey])
    /\ pmMap' = IF accepted = <<>> THEN pmMap
                ELSE [k \in DOMAIN pmMap \cup {pmKey} |->
                        IF k = pmKey THEN accepted ELSE pmMap[k]]
    /\ pmPc' = "channels"
    /\ UNCHANGED <<frame, pmIds, pmCollected, pmShared, pmRet, scanVars,
                   tauVars, piVars, idsVars>>

\* general.py:182 and general.py:247
PulseMapReturn ==
    /\ pmPc = "channels"
    /\ pmShared = {}
    /\ PmEnd(Val("returned", 0))
    /\ UNCHANGED <<frame, pmIds, pmCollected, pmShared, pmMap, scanVars,
                   tauVars, piVars, idsVars>>

-----------------------------------------------------------------------------
(* Specifications                                                          *)

InitT == InitTau /\ InitPiIdle /\ InitIdsIdle /\ InitPmIdle
NextT == CallGetTauEnergyDeposited
SpecTau == InitT /\ [][NextT]_vars

InitI == InitTauIdle /\ InitPi /\ InitIdsIdle /\ InitPmIdle
NextI == CallParticleIsInside
SpecInside == InitI /\ [][NextI]_vars

InitD == InitTauIdle /\ InitPiIdle /\ InitIds /\ InitPmIdle
NextD == CallGetIds
SpecIds == InitD /\ [][NextD]_vars

InitP == InitTauIdle /\ InitPiIdle /\ InitIdsIdle /\ InitPmWith(AllFrames)
NextP ==
    \/ GetPulseMapEnter
    \/ GetNoisePulseMapEnter
    \/ ChannelStart
    \/ ScanPulse
    \/ ChannelEnd
    \/ PulseMapReturn
SpecPulse == InitP /\ [][NextP]_vars

-----------------------------------------------------------------------------
(* Properties of get_tau_energy_deposited                                  *)

\* The call ran with the three particles and two intersection parameters
TauTwo ==
    /\ tauPc = "done"
    /\ ~AnyMissing(tauArgs)
    /\ Len(tauArgs.ts) = 2

TauE(d) == EnergyAtDistance(tauArgs.tau, tauArgs.rate, d)

\* C1: in the starting case (t_min <= 0 <= t_max) the value returned is
\* first_cascade.energy + (tau.energy - E(tau.length - 1e-6))
\* + second_cascade.energy when t_max >= tau.length, and
\* first_cascade.energy + (tau.energy - E(t_max)) when t_max < tau.length.
C1_StartingReturnsDeposit ==
    (TauTwo /\ SeqMin(tauArgs.ts) <= 0 /\ SeqMax(tauArgs.ts) >= 0) =>
        tauRet =
          IF SeqMax(tauArgs.ts) >= tauArgs.tau.length
          THEN Float(tauArgs.first.energy
                     + (tauArgs.tau.energy
                        - TauE(tauArgs.tau.length - DecayEps))
                     + tauArgs.second.energy)
          ELSE Float(tauArgs.first.energy
                     + (tauArgs.tau.energy - TauE(SeqMax(tauArgs.ts))))

\* C2: in the through-going case (t_min > 0, t_max > 0) the value returned is
\* E(t_min) - E(tau.length - 1e-6) + second_cascade.energy when
\* t_max >= tau.length and E(t_min) - E(t_max) when t_max < tau.length; with
\* the no-loss model that is second_cascade.energy and 0.
C2_ThroughGoingReturnsDeposit ==
    (TauTwo /\ SeqMin(tauArgs.ts) > 0 /\ SeqMax(tauArgs.ts) > 0) =>
        /\ tauRet =
             IF SeqMax(tauArgs.ts) >= tauArgs.tau.length
             THEN Float(TauE(SeqMin(tauArgs.ts))
                        - TauE(tauArgs.tau.length - DecayEps)
                        + tauArgs.second.energy)
             ELSE Float(TauE(SeqMin(tauArgs.ts)) - TauE(SeqMax(tauArgs.ts)))
        /\ tauArgs.rate = 0 =>
             tauRet = IF SeqMax(tauArgs.ts) >= tauArgs.tau.length
                      THEN Float(tauArgs.second.energy)
                      ELSE Float(0)

\* C4: with the three particles present, a line that misses the volume or
\* meets it only behind the tau (t_max < 0) gives exactly 0, whatever the
\* energies, the length and the energy model, and the energy model is not
\* asked.
C4_NoDepositOutside ==
    (/\ tauPc = "done"
     /\ ~AnyMissing(tauArgs)
     /\ \/ Len(tauArgs.ts) = 0
        \/ Len(tauArgs.ts) = 2 /\ SeqMax(tauArgs.ts) < 0) =>
        /\ tauRet = Float(0)
        /\ tauAsked = {}

\* C4's case: a lossy tau with energy, both intersections behind it
C4_Witness ==
    /\ TauTwo
    /\ SeqMax(tauArgs.ts) < 0
    /\ tauArgs.ts[1] # tauArgs.ts[2]
    /\ tauArgs.tau.energy > 0 /\ tauArgs.tau.length > 0
    /\ tauArgs.first.energy > 0 /\ tauArgs.second.energy > 0
    /\ tauArgs.rate > 0
    /\ tauRet = Float(0)

\* C9: with a non-increasing energy model (E(0) = tau.energy) every energy
\* difference the function computes is non-negative, for two intersection
\* parameters and 0 <= tau.length, also when t_min > tau.length.
C9_LossesNonNegative ==
    (TauTwo /\ tauArgs.rate >= 0 /\ tauArgs.tau.length >= 0) =>
        \A lost \in tauLoss : lost >= 0

-----------------------------------------------------------------------------
(* Properties of particle_is_inside                                        *)

PiLo == IF piArgs.ts[1] <= piArgs.ts[2] THEN piArgs.ts[1] ELSE piArgs.ts[2]
PiHi == IF piArgs.ts[1] <= piArgs.ts[2] THEN piArgs.ts[2] ELSE piArgs.ts[1]

-----------------------------------------------------------------------------
(* Properties of get_ids_of_particle_and_daughters                         *)

RECURSIVE Closure(_, _)

\* The particles reached from the set S along the daughter lists
Closure(tree, S) ==
    LET T == S \cup {m \in DOMAIN tree.dau :
                       \E p \in S : m \in Range(tree.dau[p])}
    IN  IF T = S THEN S ELSE Closure(tree, T)

\* The start particle and its transitive descendants
Lineage(tree, particle) == Closure(tree, {particle})

Count(s, x) == Cardinality({k \in DOMAIN s : s[k] = x})

RECURSIVE Orderings(_, _)

\* The daughter lists of the particles 1..n of a tree, each in any order
Orderings(tree, n) ==
    IF n = 0 THEN {<<>>}
    ELSE {Append(d, list) : d \in Orderings(tree, n - 1),
                            list \in Perms(Range(tree.dau[n]))}

\* The trees with the same daughters as tree, listed in any order
Reordered(tree) ==
    {[dau |-> d, id |-> tree.id] : d \in Orderings(tree, Len(tree.dau))}

\* C8: on a finite acyclic tree the call ends and returns the accumulator
\* followed by the id of the start particle and of every transitive
\* descendant, each particle once and nothing else; the id set is the same
\* for every order of the daughter lists; a particle without daughters adds
\* its own id only; a None particle returns the accumulator unchanged.
C8_IdsOfLineage ==
    idsPc = "done" =>
        LET tree  == idsArgs.tree
            start == idsArgs.particle
            acc   == idsArgs.ids
            added == SubSeq(idsRet, Len(acc) + 1, Len(idsRet))
        IN  IF start = NoParticle THEN idsRet = acc
            ELSE /\ Len(idsRet) >= Len(acc)
                 /\ SubSeq(idsRet, 1, Len(acc)) = acc
                 /\ Len(added) = Cardinality(Lineage(tree, start))
                 /\ \A i \in IdSet :
                      Count(added, i) =
                        Cardinality({p \in Lineage(tree, start) :
                                       tree.id[p] = i})
                 /\ \A t \in Reordered(tree) :
                      Range(GetIdsOfParticleAndDaughters(t, start, acc))
                        = Range(idsRet)
                 /\ tree.dau[start] = <<>> =>
                      idsRet = Append(acc, tree.id[start])

\* C8's case: a start particle with a daughter and a grand-daughter, all with
\* different ids, and an accumulator that already holds an id
C8_Witness ==
    /\ idsPc = "done"
    /\ idsArgs.particle # NoParticle
    /\ idsArgs.ids # <<>>
    /\ \E d \in Range(idsArgs.tree.dau[idsArgs.particle]) :
         idsArgs.tree.dau[d] # <<>>
    /\ Cardinality(Range(idsArgs.tree.id)) = MaxNodes
    /\ Len(idsRet) = Len(idsArgs.ids) + 3

-----------------------------------------------------------------------------
(* Properties of get_pulse_map and get_noise_pulse_map                     *)

\* The candidate times of a key, from the frame alone: the photoelectrons
\* whose id is that of the particle or of one of its descendants (signal),
\* or the empty id (noise)
FrameCandidates(key) ==
    LET lineage == Lineage(frame.tree, frame.particle)
        keep(p) == IF frame.mode = "signal"
                   THEN \E q \in lineage : frame.tree.id[q] = p.ID
                   ELSE p.ID.majorID = 0 /\ p.ID.minorID = 0
        picked  == SelectSeq(frame.mcpe[key], keep)
    IN  [k \in DOMAIN picked |-> picked[k].time]

\* The 0-based indices, from the cursor on, of the candidates within the
\* tolerance of a pulse time
Hits(cursor, pulse_time) ==
    {j \in cursor..(Len(mcPulseTimes) - 1) :
        Abs(pulse_time - mcPulseTimes[j + 1]) < frame.max_time_dif}

LeastOf(S) == CHOOSE x \in S : \A y \in S : x <= y

\* One step of the scan of a key: the next pulse in list order is accepted
\* exactly when a candidate at or after the cursor is within the tolerance,
\* and then the cursor becomes the first such index
C3_Step ==
    /\ (pmPc # "scan" /\ pmPc' = "scan") =>
          /\ pmKey' \in DOMAIN frame.pulses /\ pmKey' \in DOMAIN frame.mcpe
          /\ mcPulseTimes' = FrameCandidates(pmKey') /\ mcPulseTimes' # <<>>
          /\ lastIndex' = 0 /\ pulseIdx' = 0 /\ accepted' = <<>>
    /\ (pmPc = "scan" /\ pmPc' = "scan") =>
          LET pulse == frame.pulses[pmKey][pulseIdx + 1]
              hits  == Hits(lastIndex, pulse)
          IN  /\ pulseIdx' = pulseIdx + 1
              /\ pmKey' = pmKey /\ mcPulseTimes' = mcPulseTimes
              /\ lastIndex' >= lastIndex
              /\ IF hits # {}
                 THEN /\ accepted' = Append(accepted, pulse)
                      /\ lastIndex' = LeastOf(hits)
                 ELSE /\ accepted' = accepted
                      /\ lastIndex' = lastIndex
    /\ (pmPc = "scan" /\ pmPc' # "scan") =>
          /\ pulseIdx = Len(frame.pulses[pmKey])
          /\ accepted # <<>> => (pmKey \in DOMAIN pmMap' /\ pmMap'[pmKey] = accepted)
          /\ accepted = <<>> => pmMap' = pmMap

\* During the scan the cursor is a valid index and the accepted pulses are
\* the pulses at strictly increasing positions already visited
C3_ScanInv ==
    pmPc = "scan" =>
        /\ 0 <= lastIndex /\ lastIndex < Len(mcPulseTimes)
        /\ pulseIdx <= Len(frame.pulses[pmKey])
        /\ Len(acceptedAt) = Len(accepted)
        /\ \A k \in DOMAIN accepted :
             /\ acceptedAt[k] \in 1..pulseIdx
             /\ accepted[k] = frame.pulses[pmKey][acceptedAt[k]]
             /\ k > 1 => acceptedAt[k - 1] < acceptedAt[k]

\* The documented scenario
C3_Example ==
    (/\ pmPc = "done"
     /\ frame.pulses = <<<<100, 250, 400>>>>
     /\ frame.max_time_dif = 100
     /\ FrameCandidates(1) = <<105, 402>>) =>
        pmMap = <<<<100, 400>>>>

\* C3: on each channel of both maps with a candidate photoelectron the
\* pulses are processed in list order with a cursor that starts at 0; a pulse
\* is accepted exactly when a candidate at an index >= the cursor is within
\* the tolerance, and then the cursor becomes the first such index, otherwise
\* it stays; so the cursor never decreases and stays a valid index, and the
\* accepted pulses are an order-preserving subsequence of the pulses.  Pulses
\* [100, 250, 400] with candidates [105, 402] and tolerance 100 give
\* [100, 400].
C3_ScanRule == [][C3_Step]_vars /\ []C3_ScanInv /\ []C3_Example

\* C3's case: the documented scenario has run, the cursor moved to the second
\* candidate, and the pulse at 250 was left out
C3_Witness ==
    /\ pmPc = "done"
    /\ frame.pulses = <<<<100, 250, 400>>>>
    /\ mcPulseTimes = <<105, 402>>
    /\ lastIndex = 1
    /\ acceptedAt = <<1, 3>>
    /\ pmMap = <<<<100, 400>>>>

Sorted(s) == \A k \in 1..(Len(s) - 1) : s[k] <= s[k + 1]

\* The pulses a search of all candidates accepts
FullSearch(key) ==
    LET cands   == FrameCandidates(key)
        near(t) == \E k \in DOMAIN cands : Abs(t - cands[k]) < frame.max_time_dif
    IN  SelectSeq(frame.pulses[key], near)

\* The pulses of a key in the map returned
Output(key) == IF key \in DOMAIN pmMap THEN pmMap[key] ELSE <<>>

\* C10: when the pulses of a channel and its candidate times are both sorted
\* ascending, the scan accepts exactly the pulses a search of all candidates
\* accepts: a pulse is in the output exactly when some candidate of the
\* channel, at any index, is within the tolerance.
C10_SortedScanIsFullSearch ==
    (pmPc = "done" /\ pmRet.kind = "returned" /\ frame.hasPulses) =>
        \A key \in DOMAIN frame.pulses \cap DOMAIN frame.mcpe :
            (Sorted(frame.pulses[key]) /\ Sorted(FrameCandidates(key))) =>
                Output(key) = FullSearch(key)

\* C10's case: a signal call on sorted input, with a photoelectron of the
\* particle and one of its daughter, whose cursor left the first candidate
\* behind, and which accepted some pulses of the channel and not others
C10_Witness ==
    /\ pmPc = "done" /\ pmRet.kind = "returned"
    /\ frame.mode = "signal"
    /\ 1 \in DOMAIN pmMap
    /\ Sorted(frame.pulses[1]) /\ Sorted(FrameCandidates(1))
    /\ Len(frame.pulses[1]) = 3
    /\ Len(pmMap[1]) = 2
    /\ pmKey = 1 /\ lastIndex = 1
    /\ Len(FrameCandidates(1)) = 2
    /\ frame.mcpe[1][1].ID # frame.mcpe[1][2].ID

\* A call of get_pulse_map for a particle with the id (0, 0)
SentinelCall ==
    /\ frame.mode = "signal"
    /\ frame.tree.id[frame.particle] = [majorID |-> 0, minorID |-> 0]

\* C6: get_pulse_map for a particle with the id (0, 0) ends in the ValueError
\* and never returns a map, whatever the frame holds, before any descendant
\* is collected and before any pulse is scanned.
C6_SentinelRejected ==
    (pmPc # "idle" /\ SentinelCall) =>
        /\ pmPc \in {"call", "done"}
        /\ pmPc = "call" => ENABLED GetPulseMapEnter
        /\ pmPc = "done" => pmRet = Raised("ValueError")
        /\ ~pmCollected /\ pmIds = {}
        /\ pmKey = 0 /\ pulseIdx = 0 /\ mcPulseTimes = <<>>
        /\ accepted = <<>> /\ pmMap = NoMap

\* C6's case: the frame holds a pulse and a noise photoelectron at the same
\* time on the same channel, and a daughter with a real id
C6_Witness ==
    /\ pmPc = "done" /\ SentinelCall
    /\ frame.hasPulses /\ frame.hasMcpe
    /\ 1 \in DOMAIN frame.pulses /\ 1 \in DOMAIN frame.mcpe
    /\ frame.tree.dau[frame.particle] # <<>>
    /\ \E k \in DOMAIN frame.pulses[1], m \in DOMAIN frame.mcpe[1] :
         /\ frame.pulses[1][k] = frame.mcpe[1][m].time
         /\ frame.mcpe[1][m].ID = EmptyId
    /\ pmRet = Raised("ValueError")

\* A call of get_pulse_map for a particle with a real id that has a
\* descendant with the id (0, 0)
SentinelDescendant ==
    /\ frame.mode = "signal"
    /\ frame.tree.id[frame.particle] # [majorID |-> 0, minorID |-> 0]
    /\ \E q \in Lineage(frame.tree, frame.particle) \ {frame.particle} :
         frame.tree.id[q] = [majorID |-> 0, minorID |-> 0]

\* C7 as stated: get_pulse_map for a particle with a real id never returns a
\* map when a descendant has the id (0, 0), whatever else the frame holds.
C7_NeverReturns ==
    (pmPc = "done" /\ SentinelDescendant) => pmRet.kind # "returned"

\* C7 as amended: when the frame holds the pulse map, such a call ends in the
\* AssertionError of general.py:149 before any key is visited; when the frame
\* does not hold the pulse map, the call returns the empty map without
\* reading the tree.
C7_AssertsWhenPulsesPresent ==
    (pmPc # "idle" /\ SentinelDescendant) =>
        /\ pmPc \in {"call", "done"}
        /\ pmPc = "call" => ENABLED GetPulseMapEnter
        /\ pmKey = 0 /\ pmMap = NoMap
        /\ (pmPc = "done" /\ frame.hasPulses) =>
              pmRet = Raised("AssertionError") /\ pmCollected
        /\ (pmPc = "done" /\ ~frame.hasPulses) =>
              pmRet = Val("returned", 0) /\ ~pmCollected

\* C7's case: the assertion stopped a call that would have matched a pulse with
\* a noise photoelectron
C7_Witness ==
    /\ pmPc = "done" /\ SentinelDescendant
    /\ frame.hasPulses /\ frame.hasMcpe
    /\ 1 \in DOMAIN frame.pulses /\ 1 \in DOMAIN frame.mcpe
    /\ \E k \in DOMAIN frame.pulses[1], m \in DOMAIN frame.mcpe[1] :
         /\ frame.pulses[1][k] = frame.mcpe[1][m].time
         /\ frame.mcpe[1][m].ID = EmptyId
    /\ pmRet = Raised("AssertionError")

=============================================================================
